---- MODULE Spec2Model ----
(***************************************************************************)
(* A model of two learning-update components of coax:                      *)
(*   coax/policy_objectives/_ppo_clip.py   (class PPOClip)                 *)
(*   coax/td_learning/_qlearning.py        (class QLearning)               *)
(*                                                                         *)
(* Numbers.  The PPO part works on exact fixed-point reals: ratios,        *)
(* epsilon and objectives are integers in units of 1/SCALE, means are in   *)
(* units of 1/(SCALE*MeanDen).  Log-probabilities are the exact logarithms *)
(* a*ln 2 + b*ln 3, kept as the pair (a, b), so that jnp.exp of a          *)
(* difference of logs is the exact rational 2^a * 3^b.                     *)
(***************************************************************************)
EXTENDS Integers, Sequences, FiniteSets, TLC

VARIABLES
    ppo,        \* the PPOClip object: [made, epsilon, regularizer]
    regHyper,   \* the dict object the regularizer holds as its hyperparams
    hpRet,      \* what the last read of PPOClip.hyperparams returned
    ppoIn,      \* the arguments PPOClip is constructed and called with
    ppoOut,     \* outcome of the PPO update call
    ql,         \* the QLearning object, or the exception its constructor raised
    qlIn,       \* the arguments QLearning is constructed and called with
    tdOut,      \* outcome of the td_error call
    gmOut       \* outcome of the Q-learning update call

ppoVars == <<ppo, regHyper, hpRet, ppoIn, ppoOut>>

qlVars == <<ql, qlIn, tdOut, gmOut>>

vars == <<ppo, regHyper, hpRet, ppoIn, ppoOut, ql, qlIn, tdOut, gmOut>>

-----------------------------------------------------------------------------
(* Bounds and units *)

MaxBatch == 2

SCALE == 2 * 2 * 2 * 3 * 5

RECURSIVE Pow(_, _)
Pow(b, n) == IF n <= 0 THEN 1 ELSE b * Pow(b, n - 1)

RECURSIVE GCD(_, _)
GCD(a, b) == IF b = 0 THEN a ELSE GCD(b, a % b)

RECURSIVE LCMUpTo(_)
LCMUpTo(n) == IF n <= 1 THEN 1 ELSE (LCMUpTo(n - 1) * n) \div GCD(LCMUpTo(n - 1), n)

\* denominator that makes every mean over 1..MaxBatch-many (and, for a
\* broadcast matrix, up to MaxBatch*(MaxBatch+1)-many) elements exact
MeanDen == LCMUpTo(MaxBatch * (MaxBatch + 1))

RECURSIVE SumTo(_, _)
SumTo(f, n) == IF n = 0 THEN 0 ELSE f[n] + SumTo(f, n - 1)

MaxI(a, b) == IF a >= b THEN a ELSE b
MinI(a, b) == IF a <= b THEN a ELSE b

-----------------------------------------------------------------------------
(* Logarithms and jnp.exp *)

Log(a, b) == [two |-> a, three |-> b]

\* jnp.exp: exp(a ln2 + b ln3) = 2^a 3^b, in units of 1/SCALE
Exp(l) ==
    (SCALE * Pow(2, l.two) * Pow(3, l.three)) \div (Pow(2, 0 - l.two) * Pow(3, 0 - l.three))

\* jnp.clip(x, lo, hi) = minimum(maximum(x, lo), hi)
Clip(x, lo, hi) == MinI(MaxI(x, lo), hi)

-----------------------------------------------------------------------------
(* jax.numpy arrays of rank 0, 1 and 2: rank, the shape normalised to      *)
(* (rows, cols) the way numpy aligns trailing axes, and row-major data.    *)

NoArray == [rank |-> -1, rows |-> 0, cols |-> 0, v |-> <<>>]

Scalar(x) == [rank |-> 0, rows |-> 1, cols |-> 1, v |-> <<x>>]
Vec(s) == [rank |-> 1, rows |-> 1, cols |-> Len(s), v |-> s]
Mat(r, c, s) == [rank |-> 2, rows |-> r, cols |-> c, v |-> s]

Size(a) == a.rows * a.cols

\* numpy broadcasting of the two shapes: each axis equal, or one of them 1
Broadcastable(a, b) ==
    /\ (a.rows = b.rows \/ a.rows = 1 \/ b.rows = 1)
    /\ (a.cols = b.cols \/ a.cols = 1 \/ b.cols = 1)

Elt(a, i, j) ==
    a.v[((IF a.rows = 1 THEN 1 ELSE i) - 1) * a.cols + (IF a.cols = 1 THEN 1 ELSE j)]

\* one element of an elementwise binary jnp operation ("sub" works on logs)
Bin(op, x, y) ==
    CASE op = "sub" -> [two |-> x.two - y.two, three |-> x.three - y.three]
      [] op = "mul" -> x * y
      [] op = "min" -> MinI(x, y)
      [] op = "max" -> MaxI(x, y)
      [] op = "kl" -> [two |-> Exp(x) * (x.two - y.two), three |-> Exp(x) * (x.three - y.three)]

\* an elementwise binary jnp operation, with broadcasting
Map2(op, a, b) ==
    LET r == MaxI(a.rows, b.rows)
        c == MaxI(a.cols, b.cols)
    IN  [rank |-> MaxI(a.rank, b.rank), rows |-> r, cols |-> c,
         v |-> [k \in 1..(r * c) |->
                  Bin(op, Elt(a, ((k - 1) \div c) + 1, ((k - 1) % c) + 1),
                          Elt(b, ((k - 1) \div c) + 1, ((k - 1) % c) + 1))]]

\* jnp.mean over all elements, in units finer by the factor MeanDen
Mean(a) == SumTo(a.v, Size(a)) * (MeanDen \div Size(a))

\* jnp.exp, elementwise
ArrExp(a) == [a EXCEPT !.v = [k \in 1..Size(a) |-> Exp(a.v[k])]]

\* jnp.clip(a, lo, hi), elementwise
ArrClip(a, lo, hi) == [a EXCEPT !.v = [k \in 1..Size(a) |-> Clip(a.v[k], lo, hi)]]

\* the mean of an array of (ln 2, ln 3) coefficient pairs
MeanLog(a) ==
    [two |-> SumTo([k \in 1..Size(a) |-> a.v[k].two], Size(a)) * (MeanDen \div Size(a)),
     three |-> SumTo([k \in 1..Size(a) |-> a.v[k].three], Size(a)) * (MeanDen \div Size(a))]

\* hk.PRNGSequence(rng): its i-th next() is a fresh key derived from rng
PRNGNext(rng, i) == Append(rng, i)

-----------------------------------------------------------------------------
(* Collaborators of PPOClip: the policy pi and the regularizer *)

\* the policy's action log-probabilities log pi(.|s) for two parameter values
PiTable(params, s) ==
    CASE params = 0 /\ s = 0 -> <<Log(-1, 0), Log(-2, 0), Log(-2, 0)>>
      [] params = 0 /\ s = 1 -> <<Log(0, -1), Log(0, -1), Log(0, -1)>>
      [] params = 1 /\ s = 0 -> <<Log(-2, 1), Log(-3, 0), Log(-3, 0)>>
      [] params = 1 /\ s = 1 -> <<Log(-1, 0), Log(0, -1), Log(-1, -1)>>

\* pi.apply_func(params, state, rng, S, is_training) -> (dist_params, state_new)
pi_apply_func(params, state, rng, S, is_training) ==
    [dist_params |-> [i \in 1..Len(S) |-> PiTable(params, S[i])],
     state_new |-> IF is_training THEN state + 1 ELSE state]

\* pi.action_preprocessor_func(params, rng, A): a discrete action's index
action_preprocessor_func(params, rng, A) == [i \in 1..Len(A) |-> A[i] + 1]

\* pi.proba_dist.log_proba(dist_params, X_a): one log-probability per transition
log_proba(dist_params, X_a) == Vec([i \in 1..Len(X_a) |-> dist_params[i][X_a[i]]])

NoRegularizer == [kind |-> "none", hp |-> "prop", beta |-> 0]

\* regularizer.apply_func(dist_params, **reg_hparams): per-transition penalty,
\* in units of 1/SCALE ("zero": constant zero penalty; "spread": beta times the
\* number of distinct action probabilities)
reg_apply_func(regularizer, dist_params, reg_hparams) ==
    Vec([i \in 1..Len(dist_params) |->
           IF regularizer.kind = "zero" THEN 0
           ELSE reg_hparams["beta"] *
                Cardinality({dist_params[i][a] : a \in 1..Len(dist_params[i])})])

\* regularizer.metrics_func(dist_params, **reg_hparams)
reg_metrics_func(regularizer, dist_params, reg_hparams) ==
    [name |-> regularizer.kind, beta |-> reg_hparams["beta"]]

-----------------------------------------------------------------------------
(* class PPOClip *)

\* a rule that does not ask for recorded propensities, to compare with
NO_PROPENSITIES == FALSE

REQUIRES_PROPENSITIES == TRUE

EmptyDict == <<>>

DictSet(d, key, val) ==
    [k \in (DOMAIN d) \cup {key} |-> IF k = key THEN val ELSE d[k]]

DictDrop(d, key) == [k \in (DOMAIN d) \ {key} |-> d[k]]

\* getattr(self.regularizer, 'hyperparams', {}): the object the attribute
\* lookup yields.  "attr": the regularizer stores its hyperparameters in a
\* dict attribute, and the lookup yields that very dict.  "prop": hyperparams
\* is a property that builds a new dict on every read.  No regularizer: the
\* default, a new empty dict.
GetattrHyperparams(regularizer, held) ==
    IF regularizer.kind = "none" THEN [alias |-> FALSE, d |-> EmptyDict]
    ELSE IF regularizer.hp = "attr" THEN [alias |-> TRUE, d |-> held]
    ELSE [alias |-> FALSE, d |-> DictSet(EmptyDict, "beta", regularizer.beta)]

\* PPOClip.hyperparams: the returned mapping, and the regularizer's dict after
\* the read
hyperparams_of(self, held, got) ==
    [ret |-> DictSet(got.d, "epsilon", self.epsilon),
     held |-> IF got.alias THEN DictSet(got.d, "epsilon", self.epsilon) ELSE held]

hyperparams(self, held) == hyperparams_of(self, held, GetattrHyperparams(self.regularizer, held))

NoLocals ==
    [Adv |-> NoArray, ratio |-> NoArray, ratio_clip |-> NoArray, objective |-> NoArray]

\* the optimistic bound, jnp.maximum in the place of jnp.minimum, to compare with
ppo_clip_maximum(Adv, ratio, ratio_clip) ==
    [ratio_clip |-> ratio_clip,
     objective |-> Map2("max", Map2("mul", Adv, ratio), Map2("mul", Adv, ratio_clip))]

\* ratio_clip and objective of objective_func
ppo_clip_of(Adv, ratio, ratio_clip) ==
    [ratio_clip |-> ratio_clip,
     objective |-> Map2("min", Map2("mul", Adv, ratio), Map2("mul", Adv, ratio_clip))]

ppo_clip(Adv, ratio, epsilon) ==
    ppo_clip_of(Adv, ratio, ArrClip(ratio, SCALE - epsilon, SCALE + epsilon))

\* a check of the objective's rank alone, to compare with
objective_check_only(Adv, ratio, ratio_clip, objective) == objective.rank = 1

\* the consistency checks of objective_func
consistency_checks(Adv, ratio, ratio_clip, objective) ==
    /\ Adv.rank = 1
    /\ ratio.rank = 1
    /\ ratio_clip.rank = 1
    /\ objective.rank = 1

\* an exception leaving objective_func after the calls in trace
ObjectiveFail(e, trace, ap, log_pi, state) ==
    [err |-> e, trace |-> trace, loc |-> NoLocals, dist_params |-> ap.dist_params,
     log_pi |-> log_pi, state_new |-> state]

PiCalls == <<"pi.apply_func", "pi.action_preprocessor_func", "pi.proba_dist.log_proba">>

\* objective_func from the consistency checks on
objective_checks(Adv, ratio, clipped, ap, log_pi, state) ==
    IF ~consistency_checks(Adv, ratio, clipped.ratio_clip, clipped.objective)
    THEN ObjectiveFail("AssertionError", PiCalls \o <<"jnp.exp", "jnp.clip", "jnp.minimum">>,
                       ap, log_pi, state)
    ELSE [err |-> "", trace |-> PiCalls \o <<"jnp.exp", "jnp.clip", "jnp.minimum">>,
          loc |-> [Adv |-> Adv, ratio |-> ratio, ratio_clip |-> clipped.ratio_clip,
                   objective |-> clipped.objective],
          dist_params |-> ap.dist_params, log_pi |-> log_pi, state_new |-> ap.state_new]

\* objective_func from ratio_clip on: Adv * ratio raises when the shapes do
\* not broadcast
objective_clip(Adv, ratio, epsilon, ap, log_pi, state) ==
    IF ~Broadcastable(Adv, ratio)
    THEN ObjectiveFail("ShapeError", PiCalls \o <<"jnp.exp", "jnp.clip">>, ap, log_pi, state)
    ELSE objective_checks(Adv, ratio, ppo_clip(Adv, ratio, epsilon), ap, log_pi, state)

\* objective_func from ratio = jnp.exp(log_pi - logP) on: the subtraction
\* raises when logP is None or when the shapes do not broadcast
objective_ratio(logP, Adv, epsilon, ap, log_pi, state) ==
    IF logP = NoArray THEN ObjectiveFail("TypeError", PiCalls, ap, log_pi, state)
    ELSE IF ~Broadcastable(log_pi, logP) THEN ObjectiveFail("ShapeError", PiCalls, ap, log_pi, state)
    ELSE objective_clip(Adv, ArrExp(Map2("sub", log_pi, logP)), epsilon, ap, log_pi, state)

\* objective_func from log_pi on
objective_log_pi(ap, X_a, logP, Adv, epsilon, state) ==
    objective_ratio(logP, Adv, epsilon, ap, log_proba(ap.dist_params, X_a), state)

\* objective_func: err is "" on success; trace lists the calls made, in order;
\* loc holds Adv, ratio, ratio_clip and objective
objective_func(self, params, state, rng, transition_batch, Adv, epsilon) ==
    objective_log_pi(pi_apply_func(params, state, PRNGNext(rng, 1), transition_batch.S, TRUE),
                     action_preprocessor_func(params, PRNGNext(rng, 2), transition_batch.A),
                     transition_batch.logP, Adv, epsilon, state)

\* loss = loss_bare = -jnp.mean(objective)
loss_bare_of(objective) == 0 - Mean(objective)

\* a loss_bare that follows loss through the penalty, to compare with
loss_bare_aliased(o, loss_bare, penalty) ==
    [o |-> [o EXCEPT !.trace = @ \o <<"jnp.mean", "regularizer.apply_func">>],
     loss |-> loss_bare + Mean(penalty), loss_bare |-> loss_bare + Mean(penalty),
     penalty |-> penalty]

\* loss = loss + jnp.mean(self.regularizer.apply_func(dist_params, **reg_hparams))
loss_regularized(o, loss_bare, penalty) ==
    [o |-> [o EXCEPT !.trace = @ \o <<"jnp.mean", "regularizer.apply_func">>],
     loss |-> loss_bare + Mean(penalty), loss_bare |-> loss_bare, penalty |-> penalty]

loss_unregularized(o, loss_bare) ==
    [o |-> [o EXCEPT !.trace = @ \o <<"jnp.mean">>],
     loss |-> loss_bare, loss_bare |-> loss_bare, penalty |-> NoArray]

\* loss_func after its call of objective_func
loss_of(self, o, reg_hparams) ==
    IF o.err # "" THEN [o |-> o, loss |-> 0, loss_bare |-> 0, penalty |-> NoArray]
    ELSE IF self.regularizer.kind # "none"
         THEN loss_regularized(o, loss_bare_of(o.loc.objective),
                               reg_apply_func(self.regularizer, o.dist_params, reg_hparams))
    ELSE loss_unregularized(o, loss_bare_of(o.loc.objective))

\* loss_func: the objective_func result o, plus loss, loss_bare and the penalty
loss_func(self, params, state, rng, transition_batch, Adv, epsilon, reg_hparams) ==
    loss_of(self, objective_func(self, params, state, rng, transition_batch, Adv, epsilon),
            reg_hparams)

NoReturn == <<>>

\* the metrics mapping of grads_and_metrics_func
metrics_of(self, l, logP, reg_hparams) ==
    [loss |-> l.loss, loss_bare |-> l.loss_bare,
     kl_div_old |-> MeanLog(Map2("kl", logP, l.o.log_pi)),
     grads_ |-> "quantiles",
     regularizer |-> IF self.regularizer.kind # "none"
                     THEN reg_metrics_func(self.regularizer, l.o.dist_params, reg_hparams)
                     ELSE [name |-> "none", beta |-> 0]]

\* grads_and_metrics_func after jax.grad(loss_func, has_aux=True)(...)
grads_and_metrics_of(self, l, params, logP, reg_hparams) ==
    IF l.o.err # ""
    THEN [err |-> l.o.err, trace |-> <<"jax.grad">> \o l.o.trace, ret |-> NoReturn,
          loc |-> NoLocals, penalty |-> NoArray]
    ELSE [err |-> "", trace |-> <<"jax.grad">> \o l.o.trace \o <<"metrics">>,
          ret |-> <<[grads |-> [wrt |-> "params", at |-> params],
                     state_new |-> l.o.state_new,
                     metrics |-> metrics_of(self, l, logP, reg_hparams)]>>,
          loc |-> l.o.loc, penalty |-> l.penalty]

\* grads_and_metrics_func: ret is <<(grads, state_new, metrics)>>, or empty
\* when an exception left the function
grads_and_metrics_func(self, params, state, rng, transition_batch, Adv, epsilon, reg_hparams) ==
    grads_and_metrics_of(
        self, loss_func(self, params, state, rng, transition_batch, Adv, epsilon, reg_hparams),
        params, transition_batch.logP, reg_hparams)

\* the call self._grad_and_metrics_func(..., **self.hyperparams)
call_with_hyperparams(self, hp, params, state, rng, transition_batch, Adv) ==
    [out |-> [grads_and_metrics_func(self, params, state, rng, transition_batch, Adv,
                                     hp.ret["epsilon"], DictDrop(hp.ret, "epsilon"))
              EXCEPT !.trace = <<"validate_batch", "hyperparams">> \o @],
     held |-> hp.held]

\* PolicyObjective.grads_and_metrics(transition_batch, Adv): validates the batch
\* against REQUIRES_PROPENSITIES, then calls the jitted function with
\* **self.hyperparams
base_grads_and_metrics(self, held, params, state, rng, transition_batch, Adv) ==
    IF REQUIRES_PROPENSITIES /\ transition_batch.logP = NoArray
    THEN [out |-> [err |-> "MissingPropensityError", trace |-> <<"validate_batch">>,
                   ret |-> NoReturn, loc |-> NoLocals, penalty |-> NoArray],
          held |-> held]
    ELSE call_with_hyperparams(self, hyperparams(self, held), params, state, rng,
                               transition_batch, Adv)

-----------------------------------------------------------------------------
(* The arguments PPOClip is constructed and called with *)

\* epsilon = 0.2, 0.5 and 1.25
EpsVals == {SCALE \div 5, SCALE \div 2, (5 * SCALE) \div 4}

Regularizers ==
    {NoRegularizer} \cup
    {[kind |-> k, hp |-> h, beta |-> SCALE \div 10] : k \in {"zero", "spread"}, h \in {"attr", "prop"}}

\* recorded transitions (S, A, logP); against PiTable they give the ratios
\* 1, 1/3, 1/2, 2 (params 0) and 3/2, 1/2, 1/4, 1 (params 1)
PTransitionList ==
    <<[S |-> 0, A |-> 0, logP |-> Log(-1, 0)],
      [S |-> 1, A |-> 0, logP |-> Log(0, 0)],
      [S |-> 0, A |-> 1, logP |-> Log(-1, 0)],
      [S |-> 1, A |-> 2, logP |-> Log(-1, -1)]>>

\* the batches of n transitions: n consecutive entries of the list, from
\* any entry on and wrapping around
PTransitions(n) ==
    {[i \in 1..n |-> PTransitionList[((start + i - 2) % Len(PTransitionList)) + 1]] :
        start \in 1..Len(PTransitionList)}

AdvVals == {-1, 0, 1}

AdvShapes == {"vec", "scalar", "col", "row", "wide", "long"}
LogPShapes == {"vec", "scalar", "col", "missing"}

\* the n values v as an array of the given shape: (n,), (), (n,1), (1,n),
\* (n,n+1), (n+1,), or no array at all
Shaped(v, n, shape) ==
    CASE shape = "vec" -> Vec(v)
      [] shape = "scalar" -> Scalar(v[1])
      [] shape = "col" -> Mat(n, 1, v)
      [] shape = "row" -> Mat(1, n, v)
      [] shape = "wide" -> Mat(n, n + 1, [k \in 1..(n * (n + 1)) |-> v[((k - 1) \div (n + 1)) + 1]])
      [] shape = "long" -> Vec([k \in 1..(n + 1) |-> v[((k - 1) % n) + 1]])
      [] shape = "missing" -> NoArray

PPOCall(eps, reg, params, n, ts, adv, advShape, logPShape) ==
    [epsilon |-> eps, regularizer |-> reg, params |-> params, state |-> 0, rng |-> <<0>>,
     transition_batch |->
        [S |-> [i \in 1..n |-> ts[i].S], A |-> [i \in 1..n |-> ts[i].A],
         logP |-> Shaped([i \in 1..n |-> ts[i].logP], n, logPShape)],
     Adv |-> Shaped(adv, n, advShape)]

\* batches of the documented shape, with every combination of values
WellShapedCalls ==
    UNION {{PPOCall(eps, reg, params, n, ts, adv, "vec", "vec") :
              eps \in EpsVals, reg \in Regularizers, params \in {0, 1},
              ts \in PTransitions(n), adv \in [1..n -> AdvVals]} : n \in 1..MaxBatch}

\* batches whose Adv or logP has another shape, or no logP
IllShapedCalls ==
    {PPOCall(eps, reg, 1, n, [i \in 1..n |-> PTransitionList[((i - 1) % Len(PTransitionList)) + 1]],
             [i \in 1..n |-> IF i % 2 = 1 THEN 1 ELSE -1], advShape, logPShape) :
       eps \in EpsVals, reg \in Regularizers, n \in 1..MaxBatch,
       advShape \in AdvShapes, logPShape \in LogPShapes}

PPOCalls == WellShapedCalls \cup IllShapedCalls

-----------------------------------------------------------------------------
(* Floating-point values of the Q-learning part: a finite value, in units  *)
(* of 1/QUnit, or one of +inf, -inf, NaN, with the IEEE-754 rules for them *)

QUnit == 2 * 5

Fin(n) == [cls |-> "fin", v |-> n]
PosInf == [cls |-> "inf", v |-> 1]
NegInf == [cls |-> "inf", v |-> -1]
NaN == [cls |-> "nan", v |-> 0]

Sign(n) == IF n > 0 THEN 1 ELSE IF n < 0 THEN -1 ELSE 0

FNeg(x) == [x EXCEPT !.v = 0 - @]

\* x + y: inf + (-inf) is NaN
FAdd(x, y) ==
    IF x.cls = "nan" \/ y.cls = "nan" THEN NaN
    ELSE IF x.cls = "inf" /\ y.cls = "inf" THEN (IF x.v = y.v THEN x ELSE NaN)
    ELSE IF x.cls = "inf" THEN x
    ELSE IF y.cls = "inf" THEN y
    ELSE Fin(x.v + y.v)

FSub(x, y) == FAdd(x, FNeg(y))

\* x * y: 0 * inf is NaN
FMul(x, y) ==
    IF x.cls = "nan" \/ y.cls = "nan" THEN NaN
    ELSE IF x.cls = "inf" \/ y.cls = "inf"
         THEN (IF x.v = 0 \/ y.v = 0 THEN NaN ELSE [cls |-> "inf", v |-> Sign(x.v) * Sign(y.v)])
    ELSE Fin((x.v * y.v) \div QUnit)

FAbs(x) == IF x.v < 0 THEN FNeg(x) ELSE x

\* x <= y for values that are not NaN
FLe(x, y) ==
    IF x.cls = "inf" THEN (x.v = -1 \/ (y.cls = "inf" /\ y.v = 1))
    ELSE IF y.cls = "inf" THEN y.v = 1
    ELSE x.v <= y.v

\* the maximum jnp.max builds on: NaN propagates
FMax(x, y) ==
    IF x.cls = "nan" \/ y.cls = "nan" THEN NaN ELSE IF FLe(x, y) THEN y ELSE x

RECURSIVE FMaxTo(_, _)
FMaxTo(row, n) == IF n = 1 THEN row[1] ELSE FMax(row[n], FMaxTo(row, n - 1))

\* jnp.min(Q_s_next, axis=1), to compare with
FMin(x, y) ==
    IF x.cls = "nan" \/ y.cls = "nan" THEN NaN ELSE IF FLe(x, y) THEN x ELSE y

RECURSIVE FMinTo(_, _)
FMinTo(row, n) == IF n = 1 THEN row[1] ELSE FMin(row[n], FMinTo(row, n - 1))

MinAxis1(Q_s) == [i \in 1..Len(Q_s) |-> FMinTo(Q_s[i], Len(Q_s[i]))]

\* jnp.max(Q_s_next, axis=1)
MaxAxis1(Q_s) == [i \in 1..Len(Q_s) |-> FMaxTo(Q_s[i], Len(Q_s[i]))]

RECURSIVE FSumTo(_, _)
FSumTo(f, n) == IF n = 0 THEN Fin(0) ELSE FAdd(f[n], FSumTo(f, n - 1))

-----------------------------------------------------------------------------
(* Collaborators of QLearning: the q-functions, the value transform, the   *)
(* loss function                                                           *)

\* the q-function's action values q(s, .) for three parameter values; the
\* third is a diverged network, whose outputs are not finite
QTable(params, s) ==
    CASE params = 0 /\ s = 0 -> <<Fin(1 * QUnit), Fin(5 * QUnit), Fin(2 * QUnit)>>
      [] params = 0 /\ s = 1 -> <<Fin(0), Fin(-3 * QUnit), Fin(-1 * QUnit)>>
      [] params = 1 /\ s = 0 -> <<Fin(4 * QUnit), Fin(4 * QUnit), Fin(0)>>
      [] params = 1 /\ s = 1 -> <<Fin(2 * QUnit), Fin(-2 * QUnit), Fin(7 * QUnit)>>
      [] params = 2 /\ s = 0 -> <<Fin(3 * QUnit), PosInf, Fin(0)>>
      [] params = 2 /\ s = 1 -> <<NaN, Fin(1 * QUnit), Fin(2 * QUnit)>>

\* one bit of a random key
KeyBit(rng) == SumTo(rng, Len(rng)) % 2

\* what the forward pass adds to every output: nothing for a deterministic
\* network ("none"), a key-dependent term in training mode only for a network
\* with dropout ("train"), and in both modes for a noisy network ("always")
Noise(net, rng, is_training) ==
    IF net.noise = "always" \/ (net.noise = "train" /\ is_training)
    THEN Fin(QUnit * KeyBit(rng)) ELSE Fin(0)

\* q.apply_func_type2(params, state, rng, S, is_training) -> (Q_s, state_new):
\* one value per transition and action
apply_func_type2(net, params, state, rng, S, is_training) ==
    [out |-> [i \in 1..Len(S) |->
                [a \in 1..Len(QTable(params, S[i])) |->
                   FAdd(FAdd(QTable(params, S[i])[a], Fin(QUnit * state)),
                        Noise(net, rng, is_training))]],
     state_new |-> IF is_training THEN state + 1 ELSE state]

\* q.apply_func_type1(params, state, rng, S, A, is_training) -> (Q_sa, state_new)
apply_func_type1(net, params, state, rng, S, A, is_training) ==
    [out |-> [i \in 1..Len(S) |->
                FAdd(FAdd(QTable(params, S[i])[A[i] + 1], Fin(QUnit * state)),
                     Noise(net, rng, is_training))],
     state_new |-> IF is_training THEN state + 1 ELSE state]

\* value_transform.transform_func: the identity, x/2, or x - 1
transform_func(vt, x) ==
    CASE vt = "identity" -> x
      [] vt = "halve" -> (IF x.cls = "fin" THEN Fin(x.v \div 2) ELSE x)
      [] vt = "shift" -> FSub(x, Fin(QUnit))

\* value_transform.inverse_func: the identity, 2x, or x + 1
inverse_func(vt, x) ==
    CASE vt = "identity" -> x
      [] vt = "halve" -> FMul(Fin(2 * QUnit), x)
      [] vt = "shift" -> FAdd(x, Fin(QUnit))

\* self.loss_function(G, Q): the summed absolute error
loss_function(G, Q) == FSumTo([i \in 1..Len(G) |-> FAbs(FSub(G[i], Q[i]))], Len(G))

\* BaseTD.__init__: q_targ defaults to q, value_transform to the identity pair
BaseTD_init(q, q_targ, value_transform) ==
    [q |-> q,
     q_targ |-> IF q_targ = "None" THEN q ELSE [noise |-> q_targ, discrete |-> q.discrete],
     value_transform |-> IF value_transform = "None" THEN "identity" ELSE value_transform]

-----------------------------------------------------------------------------
(* class QLearning *)

\* target: f(Rn + In * f_inv(Q_sa_next)), from Q_sa_next on
target_of(vt, Rn, In, Q_sa_next) ==
    [i \in 1..Len(Rn) |->
       transform_func(vt, FAdd(Rn[i], FMul(In[i], inverse_func(vt, Q_sa_next[i]))))]

\* target(params, state, rng, Rn, In, S_next)
target(self, params, state, rng, Rn, In, S_next) ==
    target_of(self.value_transform, Rn, In,
              MaxAxis1(apply_func_type2(self.q_targ, params, state, rng, S_next, FALSE).out))

\* loss_func from the prediction Q on
ql_loss_of(G, Qr, transition_batch) ==
    [loss |-> loss_function(G, Qr.out), G |-> G, Q |-> Qr.out, S |-> transition_batch.S,
     A |-> transition_batch.A, state_new |-> Qr.state_new]

\* a loss_func that bootstraps from the main network's params, to compare with
ql_loss_func_online(self, params, target_params, state, rng, transition_batch) ==
    ql_loss_of(target(self, params, state, PRNGNext(rng, 1), transition_batch.Rn,
                      transition_batch.In, transition_batch.S_next),
               apply_func_type1(self.q, params, state, PRNGNext(rng, 2), transition_batch.S,
                                transition_batch.A, TRUE),
               transition_batch)

\* loss_func(params, target_params, state, rng, transition_batch)
ql_loss_func(self, params, target_params, state, rng, transition_batch) ==
    ql_loss_of(target(self, target_params, state, PRNGNext(rng, 1), transition_batch.Rn,
                      transition_batch.In, transition_batch.S_next),
               apply_func_type1(self.q, params, state, PRNGNext(rng, 2), transition_batch.S,
                                transition_batch.A, TRUE),
               transition_batch)

\* grads_and_metrics_func after jax.grad(loss_func, has_aux=True)(...) and the
\* target-network estimate; bias and rmse are the mean and the root mean
\* square of the residuals err and err_targ
ql_grads_and_metrics_of(l, Q_targ, params) ==
    [G |-> l.G, Q |-> l.Q,
     ret |-> <<[grads |-> [wrt |-> "params", at |-> params], state_new |-> l.state_new,
                metrics |-> [loss |-> l.loss,
                             err |-> [i \in 1..Len(l.Q) |-> FSub(l.Q[i], l.G[i])],
                             err_targ |-> [i \in 1..Len(l.Q) |-> FSub(Q_targ[i], l.Q[i])],
                             grads_ |-> "quantiles"]]>>]

\* grads_and_metrics_func(params, target_params, state, rng, transition_batch)
ql_grads_and_metrics_func(self, params, target_params, state, rng, transition_batch) ==
    ql_grads_and_metrics_of(
        ql_loss_func(self, params, target_params, state, PRNGNext(rng, 1), transition_batch),
        apply_func_type1(self.q_targ, target_params, state, PRNGNext(rng, 2),
                         transition_batch.S, transition_batch.A, FALSE).out,
        params)

\* the residual Q - G, to compare with
td_error_reversed(G, Q) ==
    [G |-> G, Q |-> Q, err |-> [i \in 1..Len(G) |-> FSub(Q[i], G[i])]]

\* td_error_func from G and Q on: G - Q
td_error_of(G, Q) == [G |-> G, Q |-> Q, err |-> [i \in 1..Len(G) |-> FSub(G[i], Q[i])]]

\* td_error_func(params, target_params, state, rng, transition_batch)
td_error_func(self, params, target_params, state, rng, transition_batch) ==
    td_error_of(target(self, target_params, state, PRNGNext(rng, 1), transition_batch.Rn,
                       transition_batch.In, transition_batch.S_next),
                apply_func_type1(self.q, params, state, PRNGNext(rng, 2), transition_batch.S,
                                 transition_batch.A, FALSE).out)

NoQLearning ==
    [status |-> "none", err |-> "", trace |-> <<>>, funcs |-> {},
     self |-> BaseTD_init([noise |-> "none", discrete |-> TRUE], "None", "None")]

\* a constructor that looks at the action space last, to compare with
QLearning_new_late_check(q, q_targ, value_transform) ==
    IF ~q.discrete
    THEN [status |-> "failed", err |-> "NotImplementedError",
          trace |-> <<"BaseTD.__init__", "_init_funcs", "check_discrete">>,
          funcs |-> {"_grads_and_metrics_func", "_td_error_func"},
          self |-> BaseTD_init(q, q_targ, value_transform)]
    ELSE [status |-> "ready", err |-> "",
          trace |-> <<"BaseTD.__init__", "_init_funcs", "check_discrete">>,
          funcs |-> {"_grads_and_metrics_func", "_td_error_func"},
          self |-> BaseTD_init(q, q_targ, value_transform)]

\* QLearning.__init__(q, q_targ, loss_function, value_transform)
QLearning_new(q, q_targ, value_transform) ==
    IF ~q.discrete
    THEN [NoQLearning EXCEPT !.status = "failed", !.err = "NotImplementedError",
                             !.trace = <<"check_discrete">>]
    ELSE [status |-> "ready", err |-> "",
          trace |-> <<"check_discrete", "BaseTD.__init__", "_init_funcs">>,
          funcs |-> {"_grads_and_metrics_func", "_td_error_func"},
          self |-> BaseTD_init(q, q_targ, value_transform)]

-----------------------------------------------------------------------------
(* The arguments QLearning is constructed and called with *)

\* recorded transitions (S, A, Rn, In, S_next): In is 0 where the n-step
\* window crosses a terminal state, else gamma^n = 0.9
QTransitionList ==
    <<[S |-> 0, A |-> 1, Rn |-> Fin(1 * QUnit), In |-> Fin(9), S_next |-> 0],
      [S |-> 1, A |-> 0, Rn |-> Fin(1 * QUnit), In |-> Fin(0), S_next |-> 1],
      [S |-> 0, A |-> 2, Rn |-> Fin(-2 * QUnit), In |-> Fin(9), S_next |-> 1]>>

\* the batches of n transitions: n consecutive entries of the list, from
\* any entry on and wrapping around
QTransitions(n) ==
    {[i \in 1..n |-> QTransitionList[((start + i - 2) % Len(QTransitionList)) + 1]] :
        start \in 1..Len(QTransitionList)}

QFunctions ==
    {[noise |-> n, discrete |-> TRUE] : n \in {"none", "train", "always"}}
    \cup {[noise |-> "none", discrete |-> FALSE]}

QParams == {0, 1, 2}

QLCall(q, q_targ, vt, params, target_params, state, rng, n, ts) ==
    [q |-> q, q_targ |-> q_targ, value_transform |-> vt, params |-> params,
     target_params |-> target_params, state |-> state, rng |-> rng,
     transition_batch |->
        [S |-> [i \in 1..n |-> ts[i].S], A |-> [i \in 1..n |-> ts[i].A],
         Rn |-> [i \in 1..n |-> ts[i].Rn], In |-> [i \in 1..n |-> ts[i].In],
         S_next |-> [i \in 1..n |-> ts[i].S_next]]]

QLCalls ==
    UNION {{QLCall(q, q_targ, vt, params, target_params, state, rng, n, ts) :
              q \in QFunctions, q_targ \in {"None", "always"},
              vt \in {"None", "halve", "shift"}, params \in QParams, target_params \in QParams,
              state \in {0, 1}, rng \in {<<0>>, <<1>>}, ts \in QTransitions(n)} :
           n \in 1..MaxBatch}

NoQLCall == QLCall([noise |-> "none", discrete |-> TRUE], "None", "None", 0, 0, 0, <<0>>, 0, <<>>)

NoPPOCall == PPOCall(0, NoRegularizer, 0, 0, <<>>, <<>>, "vec", "vec")

NoTdError == [done |-> FALSE, G |-> <<>>, Q |-> <<>>, err |-> <<>>]

NoUpdate == [done |-> FALSE, G |-> <<>>, Q |-> <<>>, ret |-> NoReturn]

-----------------------------------------------------------------------------
(* PPOClip as a state machine *)

NoOutcome ==
    [done |-> FALSE, err |-> "", trace |-> <<>>, ret |-> NoReturn, loc |-> NoLocals,
     penalty |-> NoArray]

InitPPO ==
    /\ ppoIn \in PPOCalls
    /\ ppo = [made |-> FALSE, epsilon |-> 0, regularizer |-> NoRegularizer]
    /\ regHyper = IF ppoIn.regularizer.kind = "none" THEN EmptyDict
                  ELSE DictSet(EmptyDict, "beta", ppoIn.regularizer.beta)
    /\ hpRet = [read |-> FALSE, val |-> EmptyDict]
    /\ ppoOut = NoOutcome
    /\ qlIn = NoQLCall /\ ql = NoQLearning /\ tdOut = NoTdError /\ gmOut = NoUpdate

\* PPOClip.__init__(pi, regularizer, epsilon)
PPOClip_init ==
    /\ ~ppo.made
    /\ ppo' = [made |-> TRUE, epsilon |-> ppoIn.epsilon, regularizer |-> ppoIn.regularizer]
    /\ UNCHANGED <<regHyper, hpRet, ppoIn, ppoOut>>
    /\ UNCHANGED qlVars

\* a read of the property PPOClip.hyperparams
PPOClip_hyperparams ==
    /\ ppo.made
    /\ \E h \in {hyperparams(ppo, regHyper)} :
          /\ hpRet' = [read |-> TRUE, val |-> h.ret]
          /\ regHyper' = h.held
    /\ UNCHANGED <<ppo, ppoIn, ppoOut>>
    /\ UNCHANGED qlVars

\* one update on the batch: PolicyObjective.grads_and_metrics
PPOClip_update ==
    /\ ppo.made
    /\ \E r \in {base_grads_and_metrics(ppo, regHyper, ppoIn.params, ppoIn.state, ppoIn.rng,
                                        ppoIn.transition_batch, ppoIn.Adv)} :
          /\ ppoOut' = [done |-> TRUE, err |-> r.out.err, trace |-> r.out.trace,
                        ret |-> r.out.ret, loc |-> r.out.loc, penalty |-> r.out.penalty]
          /\ regHyper' = r.held
    /\ UNCHANGED <<ppo, hpRet, ppoIn>>
    /\ UNCHANGED qlVars

NextPPO == PPOClip_init \/ PPOClip_hyperparams \/ PPOClip_update

SpecPPO == InitPPO /\ [][NextPPO]_vars

-----------------------------------------------------------------------------
(* QLearning as a state machine *)

InitQL ==
    /\ qlIn \in QLCalls
    /\ ql = NoQLearning
    /\ tdOut = NoTdError
    /\ gmOut = NoUpdate
    /\ ppoIn = NoPPOCall
    /\ ppo = [made |-> FALSE, epsilon |-> 0, regularizer |-> NoRegularizer]
    /\ regHyper = EmptyDict
    /\ hpRet = [read |-> FALSE, val |-> EmptyDict]
    /\ ppoOut = NoOutcome

\* QLearning.__init__(q, q_targ, loss_function, value_transform)
QLearning_init ==
    /\ ql.status = "none"
    /\ ql' = QLearning_new(qlIn.q, qlIn.q_targ, qlIn.value_transform)
    /\ UNCHANGED <<qlIn, tdOut, gmOut>>
    /\ UNCHANGED ppoVars

\* one call of the jitted td_error_func
QLearning_td_error ==
    /\ ql.status = "ready"
    /\ \E r \in {td_error_func(ql.self, qlIn.params, qlIn.target_params, qlIn.state, qlIn.rng,
                               qlIn.transition_batch)} :
          tdOut' = [done |-> TRUE, G |-> r.G, Q |-> r.Q, err |-> r.err]
    /\ UNCHANGED <<ql, qlIn, gmOut>>
    /\ UNCHANGED ppoVars

\* one call of the jitted grads_and_metrics_func
QLearning_update ==
    /\ ql.status = "ready"
    /\ \E r \in {ql_grads_and_metrics_func(ql.self, qlIn.params, qlIn.target_params,
                                           qlIn.state, qlIn.rng, qlIn.transition_batch)} :
          gmOut' = [done |-> TRUE, G |-> r.G, Q |-> r.Q, ret |-> r.ret]
    /\ UNCHANGED <<ql, qlIn, tdOut>>
    /\ UNCHANGED ppoVars

NextQL == QLearning_init \/ QLearning_td_error \/ QLearning_update

SpecQL == InitQL /\ [][NextQL]_vars

-----------------------------------------------------------------------------
(* Properties of PPOClip, checked under SpecPPO *)

Updated == ppoOut.done /\ ppoOut.err = ""

ObjectiveBoundAt(adv, rho, obj, eps) ==
    /\ obj <= adv * rho
    /\ adv > 0 => /\ (obj < adv * rho => rho > SCALE + eps)
                  /\ (rho <= SCALE + eps => obj = adv * rho)
    /\ adv < 0 => /\ (obj < adv * rho => rho < SCALE - eps)
                  /\ (rho >= SCALE - eps => obj = adv * rho)

\* C1: the per-transition objective never exceeds the unclipped value
\* Adv*rho; for Adv > 0 it is strictly smaller only when rho > 1+epsilon and
\* equal otherwise; for Adv < 0 it is strictly smaller only when
\* rho < 1-epsilon and equal otherwise.
C1_ObjectiveNeverExceedsUnclipped ==
    Updated =>
        \A i \in 1..ppoOut.loc.objective.cols :
            ObjectiveBoundAt(Elt(ppoOut.loc.Adv, 1, i), Elt(ppoOut.loc.ratio, 1, i),
                             Elt(ppoOut.loc.objective, 1, i), ppo.epsilon)

\* an update in which the clip is active on both sides: a positive advantage
\* with rho > 1+epsilon and a negative one with rho < 1-epsilon
C1_Witness ==
    /\ Updated
    /\ \E i \in 1..ppoOut.loc.objective.cols :
          /\ Elt(ppoOut.loc.Adv, 1, i) > 0
          /\ Elt(ppoOut.loc.ratio, 1, i) > SCALE + ppo.epsilon
          /\ Elt(ppoOut.loc.objective, 1, i) < Elt(ppoOut.loc.Adv, 1, i) * Elt(ppoOut.loc.ratio, 1, i)
    /\ \E i \in 1..ppoOut.loc.objective.cols :
          /\ Elt(ppoOut.loc.Adv, 1, i) < 0
          /\ Elt(ppoOut.loc.ratio, 1, i) < SCALE - ppo.epsilon
          /\ Elt(ppoOut.loc.objective, 1, i) < Elt(ppoOut.loc.Adv, 1, i) * Elt(ppoOut.loc.ratio, 1, i)

C7_LossIsNegativeMeanPlusPenalty ==
    Updated =>
        /\ Size(ppoOut.loc.objective) * ppoOut.ret[1].metrics.loss_bare
              = 0 - (SumTo(ppoOut.loc.objective.v, Size(ppoOut.loc.objective)) * MeanDen)
        /\ ppo.regularizer.kind = "none" =>
              ppoOut.ret[1].metrics.loss = ppoOut.ret[1].metrics.loss_bare
        /\ ppo.regularizer.kind # "none" =>
              Size(ppoOut.penalty)
                 * (ppoOut.ret[1].metrics.loss - ppoOut.ret[1].metrics.loss_bare)
              = SumTo(ppoOut.penalty.v, Size(ppoOut.penalty)) * MeanDen
        /\ ppo.regularizer.kind = "zero" =>
              ppoOut.ret[1].metrics.loss = ppoOut.ret[1].metrics.loss_bare

\* Adv = [1, -1], rho = [1.5, 0.5], epsilon = 0.2 with a regularizer whose
\* penalty is not zero: loss_bare = -0.2 and loss differs from it
C7_Witness ==
    /\ Updated
    /\ ppo.epsilon = SCALE \div 5
    /\ ppoOut.loc.Adv.v = <<1, -1>>
    /\ ppoOut.loc.ratio.v = <<(3 * SCALE) \div 2, SCALE \div 2>>
    /\ ppoOut.loc.objective.v = <<(6 * SCALE) \div 5, 0 - ((4 * SCALE) \div 5)>>
    /\ 5 * ppoOut.ret[1].metrics.loss_bare = 0 - (SCALE * MeanDen)
    /\ ppo.regularizer.kind = "spread"
    /\ ppoOut.ret[1].metrics.loss # ppoOut.ret[1].metrics.loss_bare

\* the shape of log_pi, and of ratio = exp(log_pi - logP)
LogPiShape == Vec([i \in 1..Len(ppoIn.transition_batch.S) |-> 0])

RatioShape ==
    [rank |-> MaxI(1, ppoIn.transition_batch.logP.rank),
     rows |-> MaxI(1, ppoIn.transition_batch.logP.rows),
     cols |-> MaxI(LogPiShape.cols, ppoIn.transition_batch.logP.cols), v |-> <<>>]

\* Adv is not rank 1, or logP makes ratio, ratio_clip and objective rank 2
NotRank1 ==
    \/ ppoIn.Adv.rank # 1
    \/ ppoIn.transition_batch.logP.rank > 1

\* the operands of lines 97 and 99 broadcast, so that the asserts are reached
ShapesBroadcast ==
    /\ ppoIn.transition_batch.logP # NoArray
    /\ Broadcastable(LogPiShape, ppoIn.transition_batch.logP)
    /\ Broadcastable(ppoIn.Adv, RatioShape)

\* C8 as stated: whenever Adv, ratio, ratio_clip or objective is not exactly
\* rank 1, the update (on a batch that has its logP) fails with an assertion
\* failure and returns nothing.
C8_Original ==
    ppoOut.done /\ ppoIn.transition_batch.logP # NoArray /\ NotRank1 =>
        ppoOut.err = "AssertionError" /\ ppoOut.ret = NoReturn

\* C8 amended: whenever Adv, ratio, ratio_clip or objective is not exactly
\* rank 1, the update fails with an exception and returns no gradients, state
\* or metrics: the assertion failure when the operands broadcast, and the
\* shape error of the arithmetic (or the missing-propensity error) when they
\* never get as far as the asserts.  Whatever an update returns was computed
\* from rank-1 Adv, ratio, ratio_clip and objective.
C8_NonRank1NeverReturns ==
    /\ ppoOut.done /\ NotRank1 =>
          /\ ppoOut.ret = NoReturn
          /\ ppoOut.err \in {"AssertionError", "ShapeError", "MissingPropensityError"}
          /\ ShapesBroadcast <=> ppoOut.err = "AssertionError"
    /\ ppoOut.done /\ ppoOut.ret # NoReturn =>
          /\ ppoIn.Adv.rank = 1
          /\ ppoOut.loc.Adv.rank = 1
          /\ ppoOut.loc.ratio.rank = 1
          /\ ppoOut.loc.ratio_clip.rank = 1
          /\ ppoOut.loc.objective.rank = 1

\* a scalar Adv, which broadcasts to a rank-1 objective, stopped by the asserts
C8_Witness ==
    /\ ppoOut.done
    /\ ppoIn.Adv.rank = 0
    /\ ppoIn.transition_batch.logP.rank = 1
    /\ Len(ppoIn.transition_batch.S) = MaxBatch
    /\ ppoOut.err = "AssertionError"
    /\ ppoOut.ret = NoReturn

\* the regularizer's hyperparams mapping as it was handed to PPOClip
RegHyperAtConstruction ==
    IF ppoIn.regularizer.kind = "none" THEN EmptyDict
    ELSE DictSet(EmptyDict, "beta", ppoIn.regularizer.beta)

\* C10: reading PPOClip.hyperparams returns the regularizer's hyperparameters
\* plus 'epsilon' and leaves the regularizer's own mapping unchanged: 'epsilon'
\* is never added to it and no value in it is overwritten.
C10_RegularizerMappingUntouched ==
    /\ hpRet.read =>
          /\ hpRet.val["epsilon"] = ppo.epsilon
          /\ \A k \in DOMAIN RegHyperAtConstruction : hpRet.val[k] = RegHyperAtConstruction[k]
    /\ "epsilon" \notin DOMAIN regHyper
    /\ regHyper = RegHyperAtConstruction

-----------------------------------------------------------------------------
(* Properties of QLearning, checked under SpecQL *)

\* the keys the two entry points hand to target(): td_error_func the first
\* key of rng, grads_and_metrics_func the first key of the first key of rng
TdTargetKey == PRNGNext(qlIn.rng, 1)
GmTargetKey == PRNGNext(PRNGNext(qlIn.rng, 1), 1)

BatchLen == Len(qlIn.transition_batch.S)

\* C2 as stated: td_error_func returns G - Q pointwise, G comes from the
\* target() construction loss_func uses, and its G and Q agree with the G and
\* Q grads_and_metrics_func obtains from loss_func on identical arguments.
C2_Original ==
    tdOut.done =>
        /\ \A i \in 1..BatchLen : tdOut.err[i] = FSub(tdOut.G[i], tdOut.Q[i])
        /\ tdOut.G = target(ql.self, qlIn.target_params, qlIn.state, TdTargetKey,
                            qlIn.transition_batch.Rn, qlIn.transition_batch.In,
                            qlIn.transition_batch.S_next)
        /\ gmOut.done => tdOut.G = gmOut.G /\ tdOut.Q = gmOut.Q

\* C2 amended: td_error_func returns G - Q pointwise, where G is the G that
\* loss_func itself computes on the same five arguments and Q is q's
\* prediction in non-training mode under the second key of rng.  Against
\* grads_and_metrics_func, which hands loss_func the first key of rng and
\* predicts in training mode, G agrees whenever q_targ's non-training output
\* does not depend on the key, and Q agrees whenever q's output depends on
\* neither the key nor the training mode.
C2_TdErrorIsGMinusQ ==
    tdOut.done =>
        /\ \A i \in 1..BatchLen : tdOut.err[i] = FSub(tdOut.G[i], tdOut.Q[i])
        /\ tdOut.G = ql_loss_func(ql.self, qlIn.params, qlIn.target_params, qlIn.state,
                                  qlIn.rng, qlIn.transition_batch).G
        /\ tdOut.Q = apply_func_type1(ql.self.q, qlIn.params, qlIn.state,
                                      PRNGNext(qlIn.rng, 2), qlIn.transition_batch.S,
                                      qlIn.transition_batch.A, FALSE).out
        /\ gmOut.done /\ ql.self.q_targ.noise # "always" => tdOut.G = gmOut.G
        /\ gmOut.done /\ ql.self.q.noise = "none" => tdOut.Q = gmOut.Q

\* both entry points called on the same arguments with deterministic
\* networks, and a TD error that is not zero
C2_Witness ==
    /\ tdOut.done /\ gmOut.done
    /\ ql.self.q.noise = "none" /\ ql.self.q_targ.noise = "none"
    /\ tdOut.G = gmOut.G /\ tdOut.Q = gmOut.Q
    /\ BatchLen = MaxBatch
    /\ \A i \in 1..BatchLen : tdOut.err[i].cls = "fin" /\ tdOut.err[i].v # 0

TerminalTargetIs(G) ==
    \A i \in 1..BatchLen :
        qlIn.transition_batch.In[i] = Fin(0) =>
            G[i] = transform_func(ql.self.value_transform, qlIn.transition_batch.Rn[i])

\* C3: for every transition whose In is 0 the target is G = f(Rn), for every
\* value of Q_sa_next and every value-transform pair: the bootstrap term
\* vanishes exactly.
C3_TerminalTargetIsTransformedReturn ==
    /\ tdOut.done => TerminalTargetIs(tdOut.G)
    /\ gmOut.done => TerminalTargetIs(gmOut.G)

\* g = rn + inn * max(row), the maximum characterised without jnp.max: an
\* entry no other entry exceeds, or NaN when the row holds a NaN
BootstrappedMaxAt(g, rn, inn, row) ==
    IF \E a \in DOMAIN row : row[a] = NaN THEN g = NaN
    ELSE \E a \in DOMAIN row :
            /\ \A b \in DOMAIN row : FLe(row[b], row[a])
            /\ g = FAdd(rn, FMul(inn, row[a]))

\* the target network's values at S_next: target_params, non-training mode
QTargAtSNext(key) ==
    apply_func_type2(ql.self.q_targ, qlIn.target_params, qlIn.state, key,
                     qlIn.transition_batch.S_next, FALSE).out

IdentityTargetIs(G, key) ==
    \A i \in 1..BatchLen :
        BootstrappedMaxAt(G[i], qlIn.transition_batch.Rn[i], qlIn.transition_batch.In[i],
                          QTargAtSNext(key)[i])

\* C4: with the identity value transform the target is, for every
\* transition, G = Rn + In * max_a Q_targ(S_next, a), Q_targ evaluated with
\* target_params in non-training mode.
C4_IdentityTargetIsBootstrappedMax ==
    /\ tdOut.done /\ ql.self.value_transform = "identity" => IdentityTargetIs(tdOut.G, TdTargetKey)
    /\ gmOut.done /\ ql.self.value_transform = "identity" => IdentityTargetIs(gmOut.G, GmTargetKey)

\* Q_targ(S_next) = [1.0, 5.0, 2.0], Rn = 1.0, In = 0.9 gives G = 5.5
C4_Witness ==
    /\ tdOut.done
    /\ ql.self.value_transform = "identity"
    /\ QTargAtSNext(TdTargetKey)[1] = <<Fin(1 * QUnit), Fin(5 * QUnit), Fin(2 * QUnit)>>
    /\ qlIn.transition_batch.Rn[1] = Fin(1 * QUnit)
    /\ qlIn.transition_batch.In[1] = Fin(9)
    /\ tdOut.G[1] = Fin(55)

\* C6: constructing QLearning with a q whose action space is not discrete
\* fails with NotImplementedError before the base-class initialisation and
\* before _init_funcs builds any function; no batch is ever processed.
C6_NonDiscreteRejectedAtConstruction ==
    ql.status # "none" /\ ~qlIn.q.discrete =>
        /\ ql.status = "failed"
        /\ ql.err = "NotImplementedError"
        /\ ql.trace = <<"check_discrete">>
        /\ ql.funcs = {}
        /\ ~tdOut.done /\ ~gmOut.done

C6_Witness == ql.status = "failed" /\ ~qlIn.q.discrete /\ ql.err = "NotImplementedError"

\* the batch with every S replaced by s and every A by a
WithSA(s, a) ==
    [qlIn.transition_batch EXCEPT !.S = [i \in 1..BatchLen |-> s],
                                  !.A = [i \in 1..BatchLen |-> a]]

\* C9: for fixed target_params, state, rng and batch, runs of loss_func that
\* differ only in params (or in S and A) produce the same G.
C9_TargetConstantInParams ==
    gmOut.done =>
        \A p \in QParams, s \in {0, 1}, a \in {0, 1, 2} :
            ql_loss_func(ql.self, p, qlIn.target_params, qlIn.state, PRNGNext(qlIn.rng, 1),
                         WithSA(s, a)).G = gmOut.G

\* an update whose target would have been another one had target() been
\* given the main network's params
C9_Witness ==
    /\ gmOut.done
    /\ qlIn.params # qlIn.target_params
    /\ target(ql.self, qlIn.params, qlIn.state, GmTargetKey, qlIn.transition_batch.Rn,
              qlIn.transition_batch.In, qlIn.transition_batch.S_next) # gmOut.G

=============================================================================
